---- MODULE Spec2Model ----
(***************************************************************************)
(* Model of MediaEncoder (src/src/encoder/encoder.cpp): option validation, *)
(* the bitrate planner and the orchestration of the ffmpeg QProcess.       *)
(*                                                                         *)
(* Conventions                                                             *)
(*  - std::optional<T> is a record [has, val]; val of a disengaged         *)
(*    optional is the content of its storage, which the code must not      *)
(*    read.  Where the code reads it anyway the model reads val, and the   *)
(*    inputs enumerate several storage contents.                           *)
(*  - double values are exact rationals <<num, den>> with den > 0, kept    *)
(*    in lowest terms.                                                     *)
(*  - QString customArguments is a sequence of character codes.            *)
(***************************************************************************)
EXTENDS Integers, Sequences, FiniteSets, TLC

VARIABLES
    \* ---- orchestration (MediaEncoder object and its ffmpeg QProcess) ----
    log,                        \* notifications emitted so far, in order
    nreq,                       \* number of Encode calls made
    reqs,                       \* per Encode call: what its lambdas captured
    proc,                       \* ffmpeg->state()
    procReq,                    \* the Encode call whose command ffmpeg runs
    updateConns,                \* live readyRead connections, in connect order
    finishedConns,              \* live finished connections, in connect order
    processUpdateConnection,    \* *processUpdateConnection (0: default handle)
    processFinishedConnection,  \* *processFinishedConnection
    output,                     \* the accumulated-output buffer
    aborted,                    \* the program died on an undefined read
    probed,                     \* Encode calls that ran ffprobe
    extQueried,                 \* Encode calls that ran the extension query
    startCalls,                 \* Encode calls that reached ffmpeg->startCommand
    chunks,                     \* readyRead events delivered so far
    \* ---- one pass through the synchronous part of Encode, step by step ----
    options,                    \* the Options under validation / planning
    metadata,                   \* the Metadata in use
    computed,                   \* ComputedOptions
    pc,                         \* position in Encode
    error                       \* validateOptions' error string (tag)

orchVars == <<log, nreq, reqs, proc, procReq, updateConns, finishedConns,
              processUpdateConnection, processFinishedConnection, output,
              aborted, probed, extQueried, startCalls, chunks>>
pureVars == <<options, metadata, computed, pc, error>>
vars == <<log, nreq, reqs, proc, procReq, updateConns, finishedConns,
          processUpdateConnection, processFinishedConnection, output,
          aborted, probed, extQueried, startCalls, chunks,
          options, metadata, computed, pc, error>>

----------------------------------------------------------------------------
(* Bounds *)
MaxRequests == 2
MaxChunks == 1
MaxArgLen == 2

----------------------------------------------------------------------------
(* Exact rational arithmetic standing for double. *)

Abs(x) == IF x < 0 THEN -x ELSE x

RECURSIVE Gcd(_, _)
Gcd(a, b) == IF b = 0 THEN a ELSE Gcd(b, a % b)

\* C++ integer division and double-to-int conversion truncate toward zero.
TruncDiv(a, b) ==
    IF (a >= 0) = (b > 0) THEN Abs(a) \div Abs(b) ELSE -(Abs(a) \div Abs(b))

\* <<1, 0>> and <<-1, 0>> are +inf and -inf, <<0, 0>> is NaN: what double
\* division by zero gives.  The comparisons below are false on NaN, as in C++.
Rat(n, d) ==
    LET g == Gcd(Abs(n), Abs(d))
        s == IF d < 0 THEN -1 ELSE 1
    IN  IF g = 0 THEN <<0, 0>> ELSE <<s * (n \div g), s * (d \div g)>>

RInt(n) == <<n, 1>>
RSub(a, b) == Rat(a[1] * b[2] - b[1] * a[2], a[2] * b[2])
RMul(a, b) == Rat(a[1] * b[1], a[2] * b[2])
RDiv(a, b) == Rat(a[1] * b[2], a[2] * b[1])
RLt(a, b) == a[1] * b[2] < b[1] * a[2]
RLe(a, b) == a[1] * b[2] <= b[1] * a[2]
\* qMax(a, b) is (a < b) ? b : a
qMax(a, b) == IF RLt(a, b) THEN b ELSE a

----------------------------------------------------------------------------
(* std::optional *)
Some(v) == [has |-> TRUE, val |-> v]
None(storage) == [has |-> FALSE, val |-> storage]
value_or(opt, d) == IF opt.has THEN opt.val ELSE d

----------------------------------------------------------------------------
(* validateOptions *)

\* The character class [ -/a-z0-9] of the regular expression at line 360:
\* the range from space (32) to slash (47), a-z (97..122) and 0-9 (48..57).
InCustomArgumentsClass(c) ==
    \/ (32 <= c /\ c <= 47)
    \/ (97 <= c /\ c <= 122)
    \/ (48 <= c /\ c <= 57)

\* QRegularExpression("[^ -/a-z0-9]").match(s).hasMatch()
HasInvalidCharacter(s) ==
    \E i \in 1..Len(s) : ~InCustomArgumentsClass(s[i])

\* The value of `error` at line 364: each check overwrites the previous one.
validateError(o) ==
    LET e0 == ""
        e1 == IF ~o.videoCodec.has /\ ~o.audioCodec.has
              THEN "NoCodec" ELSE e0
        e2 == IF ~o.videoCodec.has /\ ~o.container.has
              THEN "ContainerAudioOnly" ELSE e1
        e3 == IF o.outputWidth.has /\ o.outputWidth.val < 0
              THEN "OutputWidth" ELSE e2
        e4 == IF o.outputHeight.has /\ o.outputHeight.val < 0
              THEN "OutputHeight" ELSE e3
        e5 == IF o.aspectRatio.has /\ o.aspectRatio.val[1] <= 0
              THEN "AspectX" ELSE e4
        e6 == IF o.aspectRatio.has /\ o.aspectRatio.val[2] <= 0
              THEN "AspectY" ELSE e5
        e7 == IF o.fps.has /\ o.fps.val < 0
              THEN "Fps" ELSE e6
        e8 == IF o.speed.has /\ RLt(o.speed.val, RInt(0))
              THEN "Speed" ELSE e7
        e9 == IF o.customArguments.has /\ HasInvalidCharacter(o.customArguments.val)
              THEN "CustomArguments" ELSE e8
    IN  e9

validateOptions(o) == validateError(o) = ""

----------------------------------------------------------------------------
(* Bitrate planner *)

NoComputed == [videoBitrateKbps |-> None(RInt(0)), audioBitrateKbps |-> None(RInt(0))]

\* computeAudioBitrate with the unset quality read as 0
computeAudioBitrate_QualityDefaultZero(o, c) ==
    [c EXCEPT !.audioBitrateKbps =
        Some(qMax(o.minAudioBitrateKbps,
                  RMul(value_or(o.audioQualityPercent, RInt(0)), o.maxAudioBitrateKbps)))]

computeAudioBitrate(o, c) ==
    LET audioBitrateKbps ==
            qMax(o.minAudioBitrateKbps,
                 RMul(value_or(o.audioQualityPercent, RInt(1)), o.maxAudioBitrateKbps))
    IN  [c EXCEPT !.audioBitrateKbps = Some(audioBitrateKbps)]

\* *options.outputHeight and *options.outputWidth are read without has_value():
\* .val of a disengaged optional is whatever its storage holds.
computePixelRatio(o, m) ==
    LET inputPixelCount == m.width * m.height
        outputHeight == IF o.outputWidth.has
                        THEN o.outputHeight.val
                        ELSE TruncDiv(o.outputWidth.val * m.aspectRatioX, m.aspectRatioY)
        outputWidth  == IF o.outputWidth.has
                        THEN TruncDiv(outputHeight * m.aspectRatioX, m.aspectRatioY)
                        ELSE o.outputWidth.val
        outputPixelCount == outputWidth * outputHeight
    IN  IF outputPixelCount > 0 /\ outputPixelCount < inputPixelCount
        THEN Rat(outputPixelCount, inputPixelCount)
        ELSE RInt(1)

\* ComputeVideoBitrate without the qMax floor
ComputeVideoBitrate_NoFloor(o, c, m) ==
    [c EXCEPT !.videoBitrateKbps =
        Some(RMul(computePixelRatio(o, m),
                  RSub(RMul(RDiv(o.sizeKbps.val, m.durationSeconds),
                            RSub(RInt(1), o.overshootCorrectionPercent)),
                       value_or(c.audioBitrateKbps, RInt(0)))))]

ComputeVideoBitrate(o, c, m) ==
    LET audioBitrateKbps == value_or(c.audioBitrateKbps, RInt(0))
        pixelRatio == computePixelRatio(o, m)
        bitrateKbps == RMul(RDiv(o.sizeKbps.val, m.durationSeconds),
                            RSub(RInt(1), o.overshootCorrectionPercent))
    IN  [c EXCEPT !.videoBitrateKbps =
            Some(qMax(o.minVideoBitrateKbps,
                      RMul(pixelRatio, RSub(bitrateKbps, audioBitrateKbps))))]

\* Encode, lines 59-62
PlanAudio(o, c) ==
    IF o.audioCodec.has THEN computeAudioBitrate(o, c) ELSE c

\* Encode, lines 64-66
PlanVideo(o, c, m) ==
    IF o.videoCodec.has /\ o.sizeKbps.has THEN ComputeVideoBitrate(o, c, m) ELSE c

----------------------------------------------------------------------------
(* Inputs *)

Metadata(w, h, d, ax, ay) ==
    [width |-> w, height |-> h, durationSeconds |-> d,
     aspectRatioX |-> ax, aspectRatioY |-> ay]

\* `Metadata metadata;` before it is assigned
NoMetadata == Metadata(0, 0, RInt(0), 0, 0)

\* A Metadata whose duration is 0
ZeroDurationMetadata == Metadata(640, 360, RInt(0), 16, 9)

Metadatas == { Metadata(640, 360, RInt(120), 16, 9),
               Metadata(1280, 720, RInt(60), 16, 9) }

\* What getMetadata returns when the orchestration is explored: a
\* Metadata::Error (NoMetadata) or a Metadata
ProbeOutcomes == {NoMetadata, Metadata(1280, 720, RInt(60), 16, 9)}

\* Characters: a Z 5 space - / ; & $ " ( .
Alphabet == {97, 90, 53, 32, 45, 47, 59, 38, 36, 34, 40, 46}

Strings(n) == UNION { [1..k -> Alphabet] : k \in 0..n }

\* The tunables' defaults of struct Options
DefaultMinVideoBitrateKbps == RInt(64)
DefaultMinAudioBitrateKbps == RInt(16)
DefaultMaxAudioBitrateKbps == RInt(256)
DefaultOvershootCorrectionPercent == Rat(2, 100)

BaseOptions ==
    [videoCodec |-> Some("libx264"),
     audioCodec |-> Some("libopus"),
     container |-> Some("mp4"),
     sizeKbps |-> Some(RInt(8000)),
     audioQualityPercent |-> None(RInt(0)),
     outputWidth |-> None(0),
     outputHeight |-> None(0),
     aspectRatio |-> None(<<0, 0>>),
     fps |-> None(0),
     speed |-> None(RInt(0)),
     customArguments |-> None(<<>>),
     inputMetadata |-> Some(Metadata(640, 360, RInt(120), 16, 9)),
     minVideoBitrateKbps |-> DefaultMinVideoBitrateKbps,
     minAudioBitrateKbps |-> DefaultMinAudioBitrateKbps,
     maxAudioBitrateKbps |-> DefaultMaxAudioBitrateKbps,
     overshootCorrectionPercent |-> DefaultOvershootCorrectionPercent]

Codecs(lib) == {Some(lib), None("")}

\* Options that exercise validateOptions: every combination of the codec,
\* container and numeric fields it reads, with customArguments unset, empty,
\* "a" or ";" ...
NumericInputs ==
    { [BaseOptions EXCEPT !.videoCodec = vc, !.audioCodec = ac, !.container = ct,
                          !.outputWidth = w, !.outputHeight = h, !.aspectRatio = ar,
                          !.fps = f, !.speed = sp, !.customArguments = ca] :
        vc \in Codecs("libx264"), ac \in Codecs("libopus"), ct \in Codecs("mp4"),
        w \in {None(0), Some(-1), Some(0), Some(320)},
        h \in {None(0), Some(-1), Some(0), Some(180)},
        ar \in {None(<<0, 0>>), Some(<<16, 9>>), Some(<<0, 9>>), Some(<<16, 0>>)},
        f \in {None(0), Some(-1), Some(30)},
        sp \in {None(RInt(0)), Some(RInt(-1)), Some(Rat(1, 2))},
        ca \in {None(<<>>), Some(<<>>), Some(<<97>>), Some(<<59>>)} }

\* ... and every customArguments over the alphabet, with every combination of
\* codecs and container and with a valid or an invalid output width.
ArgumentInputs ==
    { [BaseOptions EXCEPT !.videoCodec = vc, !.audioCodec = ac, !.container = ct,
                          !.outputWidth = w, !.customArguments = Some(str)] :
        vc \in Codecs("libx264"), ac \in Codecs("libopus"), ct \in Codecs("mp4"),
        w \in {None(0), Some(-1)},
        str \in Strings(MaxArgLen) }

ValidateInputs == NumericInputs \cup ArgumentInputs

\* Options that exercise the planner: the fields computeAudioBitrate,
\* computePixelRatio and ComputeVideoBitrate read.  A disengaged outputWidth /
\* outputHeight comes with two storage contents.
PlanInputs ==
    { [BaseOptions EXCEPT !.videoCodec = vc, !.audioCodec = ac, !.sizeKbps = sz,
                          !.audioQualityPercent = q, !.outputWidth = w,
                          !.outputHeight = h, !.minVideoBitrateKbps = mv,
                          !.inputMetadata = md] :
        vc \in Codecs("libx264"), ac \in Codecs("libopus"),
        sz \in {None(RInt(0)), Some(RInt(8000)), Some(RInt(80000))},
        q \in {None(RInt(0)), Some(RInt(0)), Some(Rat(1, 2))},
        w \in {None(0), None(200), Some(320), Some(1000)},
        h \in {None(0), None(200), Some(180), Some(300), Some(2000)},
        mv \in {RInt(0), DefaultMinVideoBitrateKbps},
        md \in {None(NoMetadata)} \cup {Some(m) : m \in Metadatas} }

----------------------------------------------------------------------------
(* Initial state of a MediaEncoder and of its ffmpeg process *)

OrchInit ==
    /\ log = <<>>
    /\ nreq = 0
    /\ reqs = <<>>
    /\ proc = "NotRunning"
    /\ procReq = 0
    /\ updateConns = <<>>
    /\ finishedConns = <<>>
    /\ processUpdateConnection = 0
    /\ processFinishedConnection = 0
    /\ output = <<>>
    /\ aborted = FALSE
    /\ probed = {}
    /\ extQueried = {}
    /\ startCalls = {}
    /\ chunks = 0

----------------------------------------------------------------------------
(* The synchronous part of Encode, one step per stage (lines 34-68) *)

\* lines 36-38
ValidateStep ==
    /\ pc = "Validating"
    /\ error' = validateError(options)
    /\ pc' = IF validateOptions(options) THEN "Metadata" ELSE "Rejected"
    /\ UNCHANGED <<options, metadata, computed>>
    /\ UNCHANGED orchVars

\* lines 40-55; getMetadata returns a Metadata or a Metadata::Error
MetadataStep ==
    /\ pc = "Metadata"
    /\ IF options.inputMetadata.has
       THEN /\ metadata' = options.inputMetadata.val
            /\ pc' = "PlanAudio"
       ELSE \E result \in ProbeOutcomes \cup Metadatas :
               IF result = NoMetadata
               THEN pc' = "ProbeFailed" /\ UNCHANGED metadata
               ELSE pc' = "PlanAudio" /\ metadata' = result
    /\ UNCHANGED <<options, computed, error>>
    /\ UNCHANGED orchVars

\* lines 57-62
PlanAudioStep ==
    /\ pc = "PlanAudio"
    /\ computed' = PlanAudio(options, computed)
    /\ pc' = "PlanVideo"
    /\ UNCHANGED <<options, metadata, error>>
    /\ UNCHANGED orchVars

\* lines 64-68
PlanVideoStep ==
    /\ pc = "PlanVideo"
    /\ computed' = PlanVideo(options, computed, metadata)
    /\ pc' = "StartCompression"
    /\ UNCHANGED <<options, metadata, error>>
    /\ UNCHANGED orchVars

SyncInit ==
    /\ OrchInit
    /\ options \in ValidateInputs \cup PlanInputs
    /\ metadata = NoMetadata
    /\ computed = NoComputed
    /\ pc = "Validating"
    /\ error = ""

SyncNext == ValidateStep \/ MetadataStep \/ PlanAudioStep \/ PlanVideoStep

SpecSync == SyncInit /\ [][SyncNext]_vars

----------------------------------------------------------------------------
(* Properties of validation (SpecSync) *)

PastValidation == pc \notin {"Validating", "Rejected"}

\* C5: every Options with neither codec, and every Options with a container but
\* no video codec, is rejected: an Options that gets past validation has at
\* least one codec, and has no container when it has no video codec.
C5_CodecAndContainerRuleEnforced ==
    PastValidation =>
        /\ options.videoCodec.has \/ options.audioCodec.has
        /\ ~options.videoCodec.has => ~options.container.has

\* The rule of C5, which line 328 does not enforce; C6 and C7 are stated for
\* Options that honour it, so that their violations do not rest on that line.
CodecRuleHolds(o) ==
    /\ o.videoCodec.has \/ o.audioCodec.has
    /\ ~o.videoCodec.has => ~o.container.has

NumericViolation(o) ==
    \/ o.outputWidth.has /\ o.outputWidth.val <= 0
    \/ o.outputHeight.has /\ o.outputHeight.val <= 0
    \/ o.aspectRatio.has /\ (o.aspectRatio.val[1] <= 0 \/ o.aspectRatio.val[2] <= 0)
    \/ o.fps.has /\ o.fps.val < 0
    \/ o.speed.has /\ RLt(o.speed.val, RInt(0))

\* C6: an Options with a non-positive output width or height, a non-positive
\* aspect component, a negative frame rate or a negative speed never gets past
\* validation, whatever its other fields are.
C6_NumericViolationsRejected ==
    (PastValidation /\ CodecRuleHolds(options)) => ~NumericViolation(options)

\* letters, digits, space, hyphen, slash
InSafeSet(c) ==
    \/ (97 <= c /\ c <= 122) \/ (65 <= c /\ c <= 90)
    \/ (48 <= c /\ c <= 57)
    \/ c = 32 \/ c = 45 \/ c = 47

\* C7: customArguments that get past validation consist of characters of the
\* safe set {letters, digits, space, hyphen, slash} only.
C7_CustomArgumentsOnlySafeCharacters ==
    (PastValidation /\ CodecRuleHolds(options) /\ options.customArguments.has) =>
        \A i \in 1..Len(options.customArguments.val) :
            InSafeSet(options.customArguments.val[i])

----------------------------------------------------------------------------
(* Properties of the planner (SpecSync) *)

Planned == pc = "StartCompression"

\* The output pixel count as the specification derives it: explicit dimensions
\* first, a single explicit dimension with the other one from the input aspect
\* ratio, and the input size when no dimension is requested.
RequestedOutputPixels(o, m) ==
    IF o.outputWidth.has /\ o.outputHeight.has
    THEN o.outputWidth.val * o.outputHeight.val
    ELSE IF o.outputWidth.has
    THEN o.outputWidth.val * TruncDiv(o.outputWidth.val * m.aspectRatioY, m.aspectRatioX)
    ELSE IF o.outputHeight.has
    THEN TruncDiv(o.outputHeight.val * m.aspectRatioX, m.aspectRatioY) * o.outputHeight.val
    ELSE m.width * m.height

NoDownscale(o, m) ==
    \/ ~o.outputWidth.has /\ ~o.outputHeight.has
    \/ RequestedOutputPixels(o, m) >= m.width * m.height

SizeBudget(o, m) ==
    RMul(RDiv(o.sizeKbps.val, m.durationSeconds),
         RSub(RInt(1), o.overshootCorrectionPercent))

\* C8: with a video codec, a size target and no downscale the pixel ratio is 1
\* and videoBitrate = max(minVideoBitrateKbps, budget - audioBitrate), the audio
\* bitrate being 0 without an audio codec.
C8_NoDownscaleVideoBitrate ==
    (Planned /\ options.videoCodec.has /\ options.sizeKbps.has
             /\ NoDownscale(options, metadata)) =>
        /\ computePixelRatio(options, metadata) = RInt(1)
        /\ computed.videoBitrateKbps =
              Some(qMax(options.minVideoBitrateKbps,
                        RSub(SizeBudget(options, metadata),
                             IF options.audioCodec.has
                             THEN computed.audioBitrateKbps.val ELSE RInt(0))))

\* C9: once the audio stage of planning is over, the audio bitrate is
\* max(minAudioBitrateKbps, quality * maxAudioBitrateKbps) with an unset quality
\* counting as 1 when an audio codec is selected, and is unset otherwise; a
\* video bitrate is only ever present after the audio stage.
C9_AudioBitrate ==
    /\ pc \in {"PlanVideo", "StartCompression"} =>
          IF options.audioCodec.has
          THEN computed.audioBitrateKbps =
                 Some(qMax(options.minAudioBitrateKbps,
                           RMul(IF options.audioQualityPercent.has
                                THEN options.audioQualityPercent.val ELSE RInt(1),
                                options.maxAudioBitrateKbps)))
          ELSE ~computed.audioBitrateKbps.has
    /\ computed.videoBitrateKbps.has =>
          /\ pc = "StartCompression"
          /\ options.audioCodec.has => computed.audioBitrateKbps.has

C9_Witness ==
    /\ Planned
    /\ options.audioCodec.has /\ ~options.audioQualityPercent.has
    /\ computed.audioBitrateKbps = Some(DefaultMaxAudioBitrateKbps)
    /\ computed.videoBitrateKbps.has

IsDownscale(o, m) == RLt(computePixelRatio(o, m), RInt(1))

\* The Options that differ from o in the requested output dimensions only
DimensionVariants(o) ==
    { [o EXCEPT !.outputWidth = w, !.outputHeight = h] :
        w \in {x.outputWidth : x \in PlanInputs},
        h \in {x.outputHeight : x \in PlanInputs} }

DerivedPixelRatio(o, m) ==
    LET outputPixels == RequestedOutputPixels(o, m)
    IN  IF ~o.outputWidth.has /\ ~o.outputHeight.has THEN RInt(1)
        ELSE IF outputPixels > 0 /\ outputPixels < m.width * m.height
        THEN Rat(outputPixels, m.width * m.height)
        ELSE RInt(1)

\* C16: the pixel ratio the video bitrate is computed with is the one of the
\* requested dimensions: both when both are given, the missing one from the
\* input aspect ratio when one is given, ratio 1 when none is given;
\* outputPixels/inputPixels when 0 < outputPixels < inputPixels, 1 otherwise.
C16_PixelRatioDerivation ==
    (Planned /\ options.videoCodec.has /\ options.sizeKbps.has) =>
        /\ computePixelRatio(options, metadata) = DerivedPixelRatio(options, metadata)
        /\ computed.videoBitrateKbps =
              Some(qMax(options.minVideoBitrateKbps,
                        RMul(DerivedPixelRatio(options, metadata),
                             RSub(SizeBudget(options, metadata),
                                  value_or(computed.audioBitrateKbps, RInt(0))))))

----------------------------------------------------------------------------
(* Orchestration: Encode, StartCompression and the slots of the ffmpeg     *)
(* process.  The operators below work on a record of the object's state.   *)

\* A notification: the signal (kind), the request whose Options, ComputedOptions
\* or Metadata the emitting code holds (req), the place that emits it (src) and,
\* where they apply, the exit code, whether the output file opened, whether
\* the QFile passed along is open at the emit, the request whose command the
\* exited process ran, and the percentage.
Notification(kind, req, src) ==
    [kind |-> kind, req |-> req, src |-> src,
     exitCode |-> 0, fileOpens |-> FALSE, mediaIsOpen |-> FALSE, exited |-> 0,
     percent |-> 0]

Emit(st, n) == [st EXCEPT !.log = Append(st.log, n)]

SeqToSet(q) == {q[i] : i \in 1..Len(q)}

RECURSIVE Without(_, _)
Without(q, x) ==
    IF q = <<>> THEN <<>>
    ELSE IF Head(q) = x THEN Without(Tail(q), x)
    ELSE <<Head(q)>> \o Without(Tail(q), x)

\* reqs[r].launched: QProcess::start accepted the command of request r.
\* reqs[r].command: the command StartCompression composed for request r.
\* reqs[r].unsetReads: the optionals read while disengaged on behalf of r.

\* What the extension query can do: time out, print no "Common extensions"
\* line, or print one.
ExtQueryOutcomes ==
    { [finished |-> FALSE, extensions |-> <<>>],
      [finished |-> TRUE, extensions |-> <<>>],
      [finished |-> TRUE, extensions |-> <<"mp4", "m4a">>] }

\* extensionForContainer: a QString or a Message
extensionForContainer(q) ==
    IF ~q.finished THEN [isMessage |-> TRUE, value |-> "DidNotRespond"]
    ELSE IF q.extensions = <<>> THEN [isMessage |-> TRUE, value |-> "NoExtension"]
    ELSE [isMessage |-> FALSE, value |-> Head(q.extensions)]

\* What reading a disengaged optional of class type (Container, QString) can
\* do: the program dies, or goes on with whatever the storage holds.
UndefinedReads == {"abort", "garbage"}

\* The params of the command string, lines 75-85 and 147-148.  The bitrate
\* params are optionals here: engaged when the flag is in the command.
\* videoBitrateParam is keyed on options.sizeKbps and reads
\* *computed.videoBitrateKbps whether it is engaged or not.
Command(o, c, fileExtension) ==
    [videoCodecParam |-> IF o.videoCodec.has THEN "-c:v" ELSE "-vn",
     audioCodecParam |-> IF o.audioCodec.has THEN "-c:a" ELSE "-an",
     videoBitrateParam |-> IF o.sizeKbps.has
                           THEN Some(c.videoBitrateKbps.val)
                           ELSE None(RInt(0)),
     audioBitrateParam |-> IF c.audioBitrateKbps.has
                           THEN Some(c.audioBitrateKbps.val)
                           ELSE None(RInt(0)),
     formatParam |-> o.container.val,
     customArguments |-> o.customArguments.val,
     fileExtension |-> fileExtension]

\* `QString command` before it is composed
NoCommand ==
    [videoCodecParam |-> "", audioCodecParam |-> "",
     videoBitrateParam |-> None(RInt(0)), audioBitrateParam |-> None(RInt(0)),
     formatParam |-> "", customArguments |-> <<>>, fileExtension |-> ""]

\* The optionals StartCompression has dereferenced while disengaged when it
\* has run up to the given line.
StartCompressionUnsetReads(o, c, line) ==
    (IF line >= 80 /\ o.sizeKbps.has /\ ~c.videoBitrateKbps.has
     THEN {"computed.videoBitrateKbps"} ELSE {})
    \cup (IF line >= 85 /\ ~o.container.has THEN {"container"} ELSE {})
    \cup (IF line >= 92 /\ ~o.fps.has THEN {"fps"} ELSE {})
    \cup (IF line >= 148 /\ ~o.customArguments.has THEN {"customArguments"} ELSE {})

\* The optional validateOptions dereferences while disengaged: the message of
\* the speed check, line 356, is built from *fps.
validateOptionsUnsetReads(o) ==
    IF o.speed.has /\ RLt(o.speed.val, RInt(0)) /\ ~o.fps.has THEN {"fps"} ELSE {}

\* The optionals computePixelRatio dereferences while disengaged, lines 231-237
computePixelRatioUnsetReads(o) ==
    IF o.outputWidth.has
    THEN (IF o.outputHeight.has THEN {} ELSE {"outputHeight"})
    ELSE {"outputWidth"}

\* StartCompression, lines 150-158: the two connects and startCommand
Launch(st, r, o, c, fileExtension) ==
    [st EXCEPT
       !.reqs[r].command = Command(o, c, fileExtension),
       !.reqs[r].launched = (st.proc = "NotRunning"),
       !.updateConns = Append(@, r),
       !.processUpdateConnection = r,
       !.finishedConns = Append(@, r),
       !.processFinishedConnection = r,
       !.startCalls = @ \cup {r},
       \* QProcess::start returns at once when the process is not NotRunning
       !.proc = IF @ = "NotRunning" THEN "Starting" ELSE @,
       !.procReq = IF st.proc = "NotRunning" THEN r ELSE @]

\* StartCompression that goes on to connect and start after a failed
\* extension query
StartCompression_NoReturnOnMessage(st, r, o, c, m, env) ==
    LET s1 == Emit(st, Notification("started", r, "StartCompression"))
        s2 == [s1 EXCEPT !.extQueried = @ \cup {r},
                         !.reqs[r].unsetReads = @ \cup StartCompressionUnsetReads(o, c, 139)]
        ext == extensionForContainer(env.ext)
        s3 == IF ext.isMessage
              THEN Emit(s2, Notification("failed", r, "extensionForContainer"))
              ELSE [s2 EXCEPT !.reqs[r].extension = ext.value]
        s4 == [s3 EXCEPT !.reqs[r].unsetReads = @ \cup StartCompressionUnsetReads(o, c, 148)]
    IN  IF ~o.container.has /\ env.ub85 = "abort"
        THEN [s1 EXCEPT !.aborted = TRUE,
                        !.reqs[r].unsetReads = @ \cup StartCompressionUnsetReads(o, c, 85)]
        ELSE IF ~o.customArguments.has /\ env.ub148 = "abort"
        THEN [s4 EXCEPT !.aborted = TRUE]
        ELSE Launch(s4, r, o, c, IF ext.isMessage THEN "" ELSE ext.value)

\* StartCompression, lines 71-159.  env.ext is the outcome of the extension
\* query; env.ub85 and env.ub148 are the outcomes of the reads at lines 85 and
\* 148 when the optional read there is disengaged.
StartCompression(st, r, o, c, m, env) ==
    LET s1 == Emit(st, Notification("started", r, "StartCompression"))
        \* line 85: options.container->formatName
        dies85 == ~o.container.has /\ env.ub85 = "abort"
        \* line 139
        s2 == [s1 EXCEPT !.extQueried = @ \cup {r},
                         !.reqs[r].unsetReads = @ \cup StartCompressionUnsetReads(o, c, 139)]
        ext == extensionForContainer(env.ext)
        s3 == Emit(s2, Notification("failed", r, "extensionForContainer"))
        \* line 144
        s4 == [s2 EXCEPT !.reqs[r].extension = ext.value,
                         !.reqs[r].unsetReads = @ \cup StartCompressionUnsetReads(o, c, 148)]
        \* line 148: *options.customArguments
        dies148 == ~o.customArguments.has /\ env.ub148 = "abort"
    IN  IF dies85
        THEN [s1 EXCEPT !.aborted = TRUE,
                        !.reqs[r].unsetReads = @ \cup StartCompressionUnsetReads(o, c, 85)]
        ELSE IF ext.isMessage THEN s3
        ELSE IF dies148 THEN [s4 EXCEPT !.aborted = TRUE]
        ELSE Launch(s4, r, o, c, ext.value)

\* Encode from line 40 on: the request passed validateOptions.
\* env.probe is what getMetadata returns (NoMetadata: a Metadata::Error).
EncodeValidated(st, r, o, env) ==
    LET probes == ~o.inputMetadata.has
        s1 == IF probes THEN [st EXCEPT !.probed = @ \cup {r}] ELSE st
        m == IF probes THEN env.probe ELSE o.inputMetadata.val
        c == PlanVideo(o, PlanAudio(o, NoComputed), m)
        \* line 65 calls ComputeVideoBitrate, which calls computePixelRatio
        reads == IF o.videoCodec.has /\ o.sizeKbps.has
                 THEN computePixelRatioUnsetReads(o) ELSE {}
        s2 == [s1 EXCEPT !.reqs[r].metadata = m, !.reqs[r].computed = c,
                         !.reqs[r].unsetReads = reads]
    IN  IF probes /\ env.probe = NoMetadata
        THEN Emit(s1, Notification("failed", r, "getMetadata"))
        ELSE StartCompression(s2, r, o, c, m, env)

\* Encode that goes on after a validation failure
Encode_NoReturnOnInvalid(st, r, o, env) ==
    IF ~validateOptions(o)
    THEN EncodeValidated(Emit(st, Notification("failed", r, "validateOptions")), r, o, env)
    ELSE EncodeValidated(st, r, o, env)

\* Encode, lines 34-69
EncodeBody(st, r, o, env) ==
    IF ~validateOptions(o)
    THEN Emit([st EXCEPT !.reqs[r].unsetReads = validateOptionsUnsetReads(o)],
              Notification("failed", r, "validateOptions"))
    ELSE EncodeValidated(st, r, o, env)

\* EndCompression that does not look at the output file
EndCompression_NoFileCheck(st, r, exitCode, fileOpens) ==
    LET s1 == [st EXCEPT
                 !.updateConns = Without(@, st.processUpdateConnection),
                 !.finishedConns = Without(@, st.processFinishedConnection)]
        n == [Notification(IF exitCode # 0 THEN "failed" ELSE "succeeded",
                           r, "EndCompression")
                EXCEPT !.exitCode = exitCode, !.fileOpens = (exitCode = 0 /\ fileOpens),
                       !.exited = st.procReq]
    IN  [Emit(s1, n) EXCEPT !.output = <<>>]

\* EndCompression, lines 179-205, called by the finished lambda of request r.
\* fileOpens: whether media.open(QIODevice::ReadOnly) succeeds.
EndCompression(st, r, exitCode, fileOpens) ==
    LET s1 == [st EXCEPT
                 !.updateConns = Without(@, st.processUpdateConnection),
                 !.finishedConns = Without(@, st.processFinishedConnection)]
        kind == IF exitCode # 0 THEN "failed"
                ELSE IF ~fileOpens THEN "failed"
                ELSE "succeeded"
        \* media.open is only reached with exit code 0
        opened == exitCode = 0 /\ fileOpens
        \* media.close() at line 196 comes after the emit, at line 200 before it
        mediaIsOpen == IF kind = "succeeded" THEN FALSE ELSE opened
        n == [Notification(kind, r, "EndCompression")
                EXCEPT !.exitCode = exitCode, !.fileOpens = opened,
                       !.mediaIsOpen = mediaIsOpen, !.exited = st.procReq]
    IN  [Emit(s1, n) EXCEPT !.output = <<>>]

\* Emission of QProcess::finished: the slots connected when the emission
\* starts are called in connect order; one that an earlier slot disconnected
\* is skipped.
RECURSIVE EmitFinished(_, _, _, _)
EmitFinished(slots, st, exitCode, fileOpens) ==
    IF slots = <<>> THEN st
    ELSE LET r == Head(slots)
             s1 == IF r \in SeqToSet(st.finishedConns)
                   THEN EndCompression(st, r, exitCode, fileOpens[r])
                   ELSE st
         IN  EmitFinished(Tail(slots), s1, exitCode, fileOpens)

\* UpdateProgress, lines 161-177, called by the readyRead lambda of request r
\* with the text readAll() returns.  chunk.time is the match of the time=
\* pattern turned into seconds (currentDuration), if there is one.
\* Line 174 converts the quotient to int: of an infinite or NaN quotient
\* (mediaDuration 0) the conversion is undefined, ub174 is what it yields.
UpdateProgress(st, r, chunk, ub174) ==
    LET s1 == [st EXCEPT !.output = Append(@, chunk)]
        mediaDuration == st.reqs[r].metadata.durationSeconds
        q == RDiv(RInt(chunk.time.val * 100), mediaDuration)
        progressPercent == IF q[2] = 0 THEN ub174 ELSE TruncDiv(q[1], q[2])
    IN  IF ~chunk.time.has THEN s1
        ELSE Emit(s1, [Notification("progress", r, "UpdateProgress")
                         EXCEPT !.percent = progressPercent])

\* The errorOccurred lambda of the constructor, lines 23-25
OnErrorOccurred(st) ==
    Emit(st, Notification("failed", st.procReq, "errorOccurred"))

----------------------------------------------------------------------------
(* The MediaEncoder and its ffmpeg process as a state machine *)

\* Requests the caller makes: one with every optional the code reads engaged,
\* one that validateOptions rejects, one with container and customArguments
\* unset (read at lines 85 and 148 all the same), an audio-only one
\* without Metadata, which is probed, and one whose Metadata has duration 0.
CompleteOptions ==
    [BaseOptions EXCEPT !.fps = Some(30), !.customArguments = Some(<<>>)]

EncodeInputs ==
    { CompleteOptions,
      [CompleteOptions EXCEPT !.videoCodec = None(""), !.audioCodec = None("")],
      [CompleteOptions EXCEPT !.container = None(""), !.customArguments = None(<<>>)],
      [CompleteOptions EXCEPT !.videoCodec = None(""), !.inputMetadata = None(NoMetadata)],
      [CompleteOptions EXCEPT !.inputMetadata = Some(ZeroDurationMetadata)] }

\* currentDuration of the chunks ffmpeg prints; a chunk may carry no time=
ChunkTimes == {None(0), Some(30), Some(150)}

\* What the conversion of an infinite double to int yields: the smallest int
\* (x86 cvttsd2si) or the largest (a saturating conversion)
IntConversionOutcomes == {-2147483647 - 1, 2147483647}

\* Exit codes of a process that exits, and of one that crashes
ExitCodes == {0, 1}
CrashExitCodes == {11}

NewRequest(o) ==
    [options |-> o, metadata |-> NoMetadata, computed |-> NoComputed, extension |-> "",
     launched |-> FALSE, command |-> NoCommand, unsetReads |-> {}]

Cur ==
    [log |-> log, reqs |-> reqs, proc |-> proc, procReq |-> procReq,
     updateConns |-> updateConns, finishedConns |-> finishedConns,
     processUpdateConnection |-> processUpdateConnection,
     processFinishedConnection |-> processFinishedConnection,
     output |-> output, aborted |-> aborted, probed |-> probed,
     extQueried |-> extQueried, startCalls |-> startCalls]

Becomes(st) ==
    /\ log' = st.log
    /\ reqs' = st.reqs
    /\ proc' = st.proc
    /\ procReq' = st.procReq
    /\ updateConns' = st.updateConns
    /\ finishedConns' = st.finishedConns
    /\ processUpdateConnection' = st.processUpdateConnection
    /\ processFinishedConnection' = st.processFinishedConnection
    /\ output' = st.output
    /\ aborted' = st.aborted
    /\ probed' = st.probed
    /\ extQueried' = st.extQueried
    /\ startCalls' = st.startCalls

\* The caller calls Encode (at any time: nothing in the class prevents it).
Encode ==
    /\ ~aborted
    /\ nreq < MaxRequests
    /\ \E o \in EncodeInputs, probe \in ProbeOutcomes, ext \in ExtQueryOutcomes,
          ub85 \in UndefinedReads, ub148 \in UndefinedReads :
          Becomes(EncodeBody([Cur EXCEPT !.reqs = Append(@, NewRequest(o))],
                             nreq + 1, o,
                             [probe |-> probe, ext |-> ext,
                              ub85 |-> ub85, ub148 |-> ub148]))
    /\ nreq' = nreq + 1
    /\ UNCHANGED chunks
    /\ UNCHANGED pureVars

\* ffmpeg started: QProcess goes from Starting to Running.
ProcessStarted ==
    /\ ~aborted
    /\ proc = "Starting"
    /\ proc' = "Running"
    /\ UNCHANGED <<log, nreq, reqs, procReq, updateConns, finishedConns,
                   processUpdateConnection, processFinishedConnection, output,
                   aborted, probed, extQueried, startCalls, chunks>>
    /\ UNCHANGED pureVars

\* ffmpeg could not be started: errorOccurred(FailedToStart), no finished.
ProcessFailedToStart ==
    /\ ~aborted
    /\ proc = "Starting"
    /\ Becomes([OnErrorOccurred(Cur) EXCEPT !.proc = "NotRunning"])
    /\ UNCHANGED <<nreq, chunks>>
    /\ UNCHANGED pureVars

\* readyRead: the first connected lambda reads the text; the others would
\* read an empty string, which changes nothing.
ReadyRead ==
    /\ ~aborted
    /\ proc = "Running"
    /\ chunks < MaxChunks
    /\ \E t \in ChunkTimes, ub174 \in IntConversionOutcomes :
          IF updateConns = <<>>
          THEN Becomes(Cur)
          ELSE Becomes(UpdateProgress(Cur, Head(updateConns),
                                      [req |-> procReq, time |-> t], ub174))
    /\ chunks' = chunks + 1
    /\ UNCHANGED nreq
    /\ UNCHANGED pureVars

\* ffmpeg exits: finished(exitCode, NormalExit).
ProcessFinished ==
    /\ ~aborted
    /\ proc = "Running"
    /\ \E exitCode \in ExitCodes, fileOpens \in [SeqToSet(finishedConns) -> BOOLEAN] :
          Becomes(EmitFinished(finishedConns, [Cur EXCEPT !.proc = "NotRunning"],
                               exitCode, fileOpens))
    /\ UNCHANGED <<nreq, chunks>>
    /\ UNCHANGED pureVars

\* ffmpeg crashes or is killed: errorOccurred(Crashed), then
\* finished(exitCode, CrashExit).
ProcessCrashed ==
    /\ ~aborted
    /\ proc = "Running"
    /\ \E exitCode \in CrashExitCodes, fileOpens \in [SeqToSet(finishedConns) -> BOOLEAN] :
          Becomes(EmitFinished(finishedConns,
                               OnErrorOccurred([Cur EXCEPT !.proc = "NotRunning"]),
                               exitCode, fileOpens))
    /\ UNCHANGED <<nreq, chunks>>
    /\ UNCHANGED pureVars

Init ==
    /\ OrchInit
    /\ options = BaseOptions
    /\ metadata = NoMetadata
    /\ computed = NoComputed
    /\ pc = "Idle"
    /\ error = ""

Next ==
    \/ Encode
    \/ ProcessStarted
    \/ ProcessFailedToStart
    \/ ReadyRead
    \/ ProcessFinished
    \/ ProcessCrashed

Spec == Init /\ [][Next]_vars

\* The ffmpeg process delivers its events: one that is starting is started or
\* fails to start, one that runs exits or crashes, and the Qt event loop calls
\* the slots.  Nothing obliges the caller to call Encode, nor ffmpeg to print.
ProcessFairness ==
    /\ WF_vars(ProcessStarted \/ ProcessFailedToStart)
    /\ WF_vars(ProcessFinished \/ ProcessCrashed)

SpecLive == Init /\ [][Next]_vars /\ ProcessFairness

----------------------------------------------------------------------------
(* Properties of the orchestration (Spec) *)

Terminal(e) == e.kind \in {"succeeded", "failed"}

TerminalCount(r) ==
    Cardinality({i \in 1..Len(log) : Terminal(log[i]) /\ log[i].req = r})

\* Request r is over: its Encode returned without starting ffmpeg, or the
\* ffmpeg process it launched is not running any more.
Ended(r) ==
    /\ ~aborted
    /\ \/ r \notin startCalls
       \/ reqs[r].launched /\ ~(procReq = r /\ proc # "NotRunning")

\* C1: every request gets exactly one terminal notification: never two, and
\* one once the request is over.
C1_ExactlyOneTerminalNotification ==
    \A r \in 1..nreq :
        /\ TerminalCount(r) <= 1
        /\ Ended(r) => TerminalCount(r) = 1

\* C2: per request, the started notification (when there is one) comes before
\* every progress and terminal notification, and nothing is emitted after the
\* terminal notification.
C2_NotificationOrder ==
    \A i \in 1..Len(log) :
        /\ (/\ log[i].kind # "started"
            /\ \E j \in 1..Len(log) : log[j].kind = "started" /\ log[j].req = log[i].req)
           => \E j \in 1..(i - 1) : log[j].kind = "started" /\ log[j].req = log[i].req
        /\ \A j \in 1..(i - 1) : ~(Terminal(log[j]) /\ log[j].req = log[i].req)

\* C3: a notification sent when the process exits is encodingSucceeded if the
\* exit code is 0 and the output file opens, and encodingFailed otherwise;
\* encodingSucceeded is sent at no other occasion.
C3_SucceededIffExitZeroAndFileOpens ==
    \A i \in 1..Len(log) :
        /\ log[i].src = "EndCompression" =>
              /\ Terminal(log[i])
              /\ log[i].kind = "succeeded" <=> (log[i].exitCode = 0 /\ log[i].fileOpens)
        /\ log[i].kind = "succeeded" => log[i].src = "EndCompression"

C3_Witness ==
    \E i, j \in 1..Len(log) :
        /\ log[i].kind = "succeeded"
        /\ log[j].src = "EndCompression" /\ log[j].kind = "failed"
        /\ log[j].exitCode = 0 /\ ~log[j].fileOpens

\* C4: an Encode call whose Options validateOptions rejects emits the
\* validation failure and nothing else happens: no ffprobe, no extension query,
\* no ffmpeg start, no connection, and the output buffer stays as it is.
C4_RejectedEncodeHasNoSideEffect ==
    [][ (nreq' = nreq + 1 /\ ~validateOptions(reqs'[nreq'].options)) =>
          /\ log' = Append(log, Notification("failed", nreq', "validateOptions"))
          /\ UNCHANGED <<probed, extQueried, startCalls, proc, procReq,
                         updateConns, finishedConns, processUpdateConnection,
                         processFinishedConnection, output, aborted>> ]_vars

C4_Witness ==
    /\ nreq = 2
    /\ ~validateOptions(reqs[2].options)
    /\ log[Len(log)] = Notification("failed", 2, "validateOptions")
    /\ proc = "Running"
    /\ output # <<>>
    /\ finishedConns = <<1>>
    /\ probed = {} /\ extQueried = {1} /\ startCalls = {1}

\* The extension query of request r was made and gave a Message (it timed
\* out or ffmpeg printed no extension).
ExtensionQueryFailed(r) ==
    r \in extQueried /\ reqs[r].extension = ""

LastOf(r) ==
    LET is == {i \in 1..Len(log) : log[i].req = r}
    IN  log[CHOOSE i \in is : \A j \in is : j <= i]

\* C11: a request whose extension query times out or yields no extension has
\* encodingFailed as its last notification, ffmpeg is never started for it,
\* and no readyRead or finished connection of it exists.
C11_ExtensionFailureStartsNothing ==
    \A r \in 1..nreq :
        ExtensionQueryFailed(r) =>
            /\ LastOf(r).kind = "failed"
            /\ LastOf(r).src = "extensionForContainer"
            /\ r \notin startCalls
            /\ ~reqs[r].launched
            /\ r \notin SeqToSet(updateConns)
            /\ r \notin SeqToSet(finishedConns)
            /\ processUpdateConnection # r
            /\ processFinishedConnection # r

\* The extension query of request 2 failed while the ffmpeg of request 1 runs.
C11_Witness ==
    /\ nreq = 2
    /\ ExtensionQueryFailed(2)
    /\ LastOf(2).kind = "failed"
    /\ proc = "Running" /\ procReq = 1
    /\ finishedConns = <<1>>

\* C12: every encodingSucceeded carries the Options and ComputedOptions of the
\* request whose ffmpeg process exited, and a QFile of the output file that is
\* open when the signal is emitted.
C12_SucceededCarriesOpenFile ==
    \A i \in 1..Len(log) :
        log[i].kind = "succeeded" =>
            /\ log[i].req = log[i].exited
            /\ log[i].mediaIsOpen

\* C13: while ffmpeg is neither starting nor running there is no readyRead or
\* finished connection and the output buffer is empty, and there is never
\* more than one connection of each kind.
C13_ConnectionsReleasedOnTerminalPaths ==
    ~aborted =>
        /\ proc = "NotRunning" =>
              /\ updateConns = <<>>
              /\ finishedConns = <<>>
              /\ output = <<>>
        /\ Len(updateConns) <= 1
        /\ Len(finishedConns) <= 1

\* A request has started ffmpeg and has no terminal notification yet.
InFlight ==
    proc # "NotRunning" /\ TerminalCount(procReq) = 0

\* C14: an Encode call made while a request is in flight is rejected: it emits
\* one encodingFailed for the new request and leaves the process, the
\* connections, their handles and the output buffer as they are.  (Calls in
\* which the program dies of an undefined read are left aside.)
C14_EncodeWhileInFlightRejected ==
    [][ (nreq' = nreq + 1 /\ InFlight /\ ~aborted') =>
          /\ Len(log') = Len(log) + 1
          /\ log'[Len(log')].kind = "failed" /\ log'[Len(log')].req = nreq'
          /\ UNCHANGED <<startCalls, proc, procReq, updateConns, finishedConns,
                         processUpdateConnection, processFinishedConnection,
                         output>> ]_vars

\* C15: encodingStarted is only emitted for a request whose command was
\* composed and for which ffmpeg was started; a request whose extension query
\* fails has no encodingStarted.  (Runs in which the program dies of an
\* undefined read are left aside.)
C15_StartedOnlyWhenProcessStarted ==
    \A i \in 1..Len(log) :
        (~aborted /\ log[i].kind = "started") =>
            /\ log[i].req \in startCalls
            /\ ~ExtensionQueryFailed(log[i].req)

\* The Metadata request r works with has duration 0.
ZeroDuration(r) ==
    /\ reqs[r].metadata # NoMetadata
    /\ reqs[r].metadata.durationSeconds = RInt(0)

\* C17: a request whose Metadata has duration 0 ends with encodingFailed: no
\* video bitrate is computed from the duration, no progress is computed from
\* it, and ffmpeg is not started.
C17_ZeroDurationFailsFast ==
    \A r \in 1..nreq :
        ZeroDuration(r) =>
            /\ LastOf(r).kind = "failed"
            /\ ~reqs[r].computed.videoBitrateKbps.has
            /\ r \notin startCalls
            /\ \A i \in 1..Len(log) : ~(log[i].kind = "progress" /\ log[i].req = r)

\* C18: the command of a request has -b:v exactly when its ComputedOptions
\* hold a video bitrate and -b:a exactly when they hold an audio bitrate, and
\* no request reads a video bitrate that is not set.
C18_BitrateFlagsFollowComputedOptions ==
    \A r \in 1..nreq :
        /\ r \in startCalls =>
              /\ reqs[r].command.videoBitrateParam.has
                    <=> reqs[r].computed.videoBitrateKbps.has
              /\ reqs[r].command.audioBitrateParam.has
                    <=> reqs[r].computed.audioBitrateKbps.has
        /\ "computed.videoBitrateKbps" \notin reqs[r].unsetReads

\* C19: when ffmpeg prints a chunk, the chunk is appended to the output buffer;
\* with a time= in it and a positive media duration one encodingProgressUpdate
\* with a percentage from 0 to 100 is emitted, without a time= nothing is.
C19_ProgressPercentInRange ==
    [][ (chunks' = chunks + 1 /\ updateConns # <<>>) =>
          LET chunk == output'[Len(output')]
              mediaDuration == reqs[Head(updateConns)].metadata.durationSeconds
          IN  /\ output' = Append(output, chunk)
              /\ ~chunk.time.has => log' = log
              /\ (chunk.time.has /\ RLt(RInt(0), mediaDuration)) =>
                    /\ Len(log') = Len(log) + 1
                    /\ log'[Len(log')].kind = "progress"
                    /\ log'[Len(log')].percent \in 0..100 ]_vars

\* C20: no request reads an optional that is not set, neither in Encode and
\* StartCompression when validateOptions accepts its Options nor in
\* validateOptions itself.
C20_NoUnsetOptionalRead ==
    \A r \in 1..nreq : reqs[r].unsetReads = {}

\* C21: every request Encode was called for gets a terminal notification
\* (encodingSucceeded or encodingFailed) in the end, the ffmpeg process
\* delivering its events.  (Runs in which the program dies of an undefined
\* read are left aside.)
C21_EveryRequestGetsTerminal ==
    \A r \in 1..MaxRequests :
        (nreq >= r) ~> (aborted \/ TerminalCount(r) >= 1)

====
